---- MODULE Spec2Model ----
(***************************************************************************)
(* LyricsAddRequest: the lyric repository save protocol                    *)
(* (github_save_lyrics, in lyrics_core.py and in scripts/handle_issue.py), *)
(* the content it composes (_serialize_lyrics and the heading), the issue  *)
(* handler (main) and the PetitLyrics search (pl_search_smart).            *)
(*                                                                         *)
(* Times are integers in milliseconds.  Text is a sequence of characters   *)
(* over a small alphabet.  Python's None is the value None.  Every call of *)
(* the GitHub store is one atomic step; its result is what the store's     *)
(* state gives ("ok", or "gh" for a GithubException such as 404, 409 or    *)
(* 422), or an injected transient failure: "gh" (a GithubException) or     *)
(* "other" (any other Exception, e.g. a connection error).                 *)
(***************************************************************************)
EXTENDS Integers, Sequences, FiniteSets, TLC

VARIABLES
    store,   \* the lyrics repository of the identifier (the GitHub store)
    call,    \* the local state of each call of github_save_lyrics
    ghost,   \* history: injected failures, calls started, README creates
    hand,    \* the issue handler, main()
    pls,     \* a call of pl_search_smart
    fn       \* a call of one of the pure functions: its input and its result

saveVars == <<store, call, ghost>>
vars == <<store, call, ghost, hand, pls, fn>>

\* Optional[T]: None is the empty sequence, a value x is <<x>>.
None == <<>>
Some(x) == <<x>>

(* ---------------------------------------------------------------- bounds *)

\* Calls of github_save_lyrics one caller makes one after the other (SpecSeq).
MaxCalls == 2
\* Injected transient store failures in one behaviour.
MaxFaults == 1
\* lines of a synced text given to the parsers on their own
MaxLines == 2
\* candidates in one answer of the lyric database (SpecScore)
MaxCands == 3

\* The two processes that call github_save_lyrics for the same identifier.
Procs == {"p1", "p2"}

(* ------------------------------------------------------------------ text *)

RECURSIVE LStrip(_)
LStrip(s) == IF s # <<>> /\ Head(s) \in {" ", "\n"} THEN LStrip(Tail(s)) ELSE s

RECURSIVE RStrip(_)
RStrip(s) ==
    IF s # <<>> /\ s[Len(s)] \in {" ", "\n"} THEN RStrip(SubSeq(s, 1, Len(s) - 1)) ELSE s

\* str.strip()
Strip(s) == RStrip(LStrip(s))

\* str.replace("\n", " ")
FlattenNewlines(s) == [i \in 1..Len(s) |-> IF s[i] = "\n" THEN " " ELSE s[i]]

\* Python truthiness of an Optional[str] / Optional[list]: neither None nor empty
Truthy(x) == x # None /\ x[1] # <<>>

(* ------------------------------------------------------ _serialize_lyrics *)

\* {"start": ..., "end": ..., "text": ...}
Cue(start, end, text) == [start |-> start, end |-> end, text |-> text]

\* round() of a fraction of a second to centiseconds; ms is never a tie here
\* (ms % 10 = 5 rounds either way with the float error of the subtraction).
RoundCs(ms) == (ms + 5) \div 10

\* One cue's line: the stamp [mm:ss.cs] and the flattened, stripped text.
CueLine(e) ==
    [ mm   |-> (e.start \div 1000) \div 60,
      ss   |-> (e.start \div 1000) % 60,
      cs   |-> RoundCs(e.start % 1000),
      text |-> Strip(FlattenNewlines(e.text)) ]

BlankLine == [blank |-> TRUE]

\* The loop of _serialize_lyrics over cues[i..], out being the lines so far.
RECURSIVE SerializeCues(_, _, _, _)
SerializeCues(cues, i, prev_end, out) ==
    IF i > Len(cues) THEN out
    ELSE LET e    == cues[i]
             out1 == IF e.start - prev_end >= 4000 /\ out # <<>>
                     THEN Append(out, BlankLine) ELSE out
         IN  SerializeCues(cues, i + 1, e.end, Append(out1, CueLine(e)))

\* The body github_save_lyrics stores: plain text when plain is truthy, else
\* the LRC lines of the cues, else the empty body.
serialize_lyrics(plain, cues) ==
    IF Truthy(plain) THEN [kind |-> "plain", text |-> Strip(plain[1]), lines |-> <<>>]
    ELSE IF ~Truthy(cues) THEN [kind |-> "plain", text |-> <<>>, lines |-> <<>>]
    ELSE [kind |-> "lrc", text |-> <<>>, lines |-> SerializeCues(cues[1], 1, 0, <<>>)]

\* "if not body": the serialized string is empty
BodyEmpty(body) == body.text = <<>> /\ body.lines = <<>>

(* ------------------------------------------------------- composed content *)

NoLyrics == "NoLyrics"      \* the status "歌詞の登録なし"

\* The status kept as the caller passed it
StatusAsPassed(status, body) == status

\* if not body: status = "歌詞の登録なし"
StatusOf(status, body) == IF BodyEmpty(body) THEN NoLyrics ELSE status

\* lang = "lrc" if cues else ""
LangOf(cues) == IF Truthy(cues) THEN "lrc" ELSE ""

\* content = heading + fenced body if body else heading
ComposeContent(title, status, plain, cues, source_code) ==
    LET body == serialize_lyrics(plain, cues)
    IN  [ title  |-> title,
          status |-> StatusOf(status, body),
          code   |-> source_code,
          fenced |-> ~BodyEmpty(body),
          lang   |-> IF BodyEmpty(body) THEN "" ELSE LangOf(cues),
          body   |-> body ]

\* desc: "artist – track" when both are given, else the stripped full title,
\* else the title
DescOf(title, yt_full_title, music_meta) ==
    LET artist == IF music_meta = None \/ music_meta[1].artist = None
                  THEN <<>> ELSE Strip(music_meta[1].artist[1])
        track  == IF music_meta = None \/ music_meta[1].track = None
                  THEN <<>> ELSE Strip(music_meta[1].track[1])
        yt     == IF yt_full_title = None THEN <<>> ELSE Strip(yt_full_title[1])
    IN  IF artist # <<>> /\ track # <<>> THEN [artist |-> artist, text |-> track]
        ELSE IF yt # <<>> THEN [artist |-> <<>>, text |-> yt]
        ELSE [artist |-> <<>>, text |-> title]

(* ------------------------------------------- parse_lrc, parse_bracket_lrc *)

\* One line of a synced-lyrics text: a line that starts (after ws leading
\* blanks) with the marker [mm:ss] (fd = 0) or [mm:ss.f] with fd = 1..3
\* fraction digits of value fv, followed by body; or any other line.
StampLine(ws, mm, ss, fd, fv, body) ==
    [kind |-> "stamp", ws |-> ws, mm |-> mm, ss |-> ss, fd |-> fd, fv |-> fv, body |-> body]
JunkLine == [kind |-> "junk", ws |-> FALSE, mm |-> 0, ss |-> 0, fd |-> 0, fv |-> 0, body |-> <<>>]

Max(a, b) == IF a >= b THEN a ELSE b

\* The end taken from the next start alone, without the floor start + 0.1
SynthEndsNoFloor(cues) ==
    [i \in 1..Len(cues) |->
        IF i < Len(cues) THEN [cues[i] EXCEPT !.end = cues[i + 1].start - 50] ELSE cues[i]]

\* cues[i]["end"] = max(cues[i]["start"] + 0.1, cues[i + 1]["start"] - 0.05)
SynthEnds(cues) ==
    [i \in 1..Len(cues) |->
        IF i < Len(cues)
        THEN [cues[i] EXCEPT !.end = Max(cues[i].start + 100, cues[i + 1].start - 50)]
        ELSE cues[i]]

\* LRC_RE.match(line): the marker at the very start of the line
MatchesLrc(line) == line.kind = "stamp" /\ ~line.ws

\* ts = mm * 60 + ss + ms / 1000, ms = int(m[3] or 0)
LrcStart(line) == (line.mm * 60 + line.ss) * 1000 + (IF line.fd = 0 THEN 0 ELSE line.fv)

\* The loop of parse_lrc over lines[i..]. Starts are whole milliseconds;
\* abs(cues[-1]["start"] - ts) < 1e-3 is read as equality, which is what the
\* floats give except for starts one millisecond apart (inputs keep clear).
RECURSIVE ParseLrcLines(_, _, _)
ParseLrcLines(lines, i, cues) ==
    IF i > Len(lines) THEN cues
    ELSE LET line == lines[i]
             ts   == LrcStart(line)
             body == Strip(line.body)
         IN  IF ~MatchesLrc(line) \/ body = <<>> THEN ParseLrcLines(lines, i + 1, cues)
             ELSE IF cues # <<>> /\ cues[Len(cues)].start = ts
             THEN ParseLrcLines(lines, i + 1,
                      [cues EXCEPT ![Len(cues)].text = @ \o <<"\n">> \o body])
             ELSE ParseLrcLines(lines, i + 1, Append(cues, Cue(ts, ts + 4000, body)))

parse_lrc(text) == SynthEnds(ParseLrcLines(text, 1, <<>>))

\* LRC_BRACKET.match(line): leading blanks allowed, the fraction required
MatchesBracket(line) == line.kind = "stamp" /\ line.fd >= 1

\* cs = cs if cs >= 10 else cs * 10; ts = mm * 60 + ss + cs / 100
BracketStart(line) ==
    (line.mm * 60 + line.ss) * 1000 + 10 * (IF line.fv >= 10 THEN line.fv ELSE line.fv * 10)

RECURSIVE ParseBracketLines(_, _, _)
ParseBracketLines(lines, i, cues) ==
    IF i > Len(lines) THEN cues
    ELSE LET line == lines[i]
             ts   == BracketStart(line)
             body == Strip(line.body)
         IN  IF ~MatchesBracket(line) \/ body = <<>> THEN ParseBracketLines(lines, i + 1, cues)
             ELSE ParseBracketLines(lines, i + 1, Append(cues, Cue(ts, ts + 4000, body)))

\* None when no cue was read
parse_bracket_lrc(text) ==
    LET cues == ParseBracketLines(text, 1, <<>>)
    IN  IF cues = <<>> THEN None ELSE Some(SynthEnds(cues))

(* ------------------------------------------ lrclib_search, lrclib_to_lyrics *)

\* x or None
OrNone(x) == IF Truthy(x) THEN x ELSE None

\* A candidate of the LrcLib answer; tsim and asim are fuzz.ratio of the
\* normalized query track (artist) name against the candidate's.
LrcRec(track, tsim, artist, asim, plain, synced) ==
    [ trackName |-> track, tsim |-> tsim, artistName |-> artist, asim |-> asim,
      plainLyrics |-> plain, syncedLyrics |-> synced ]

\* _score(rec)
Score(track_name, artist_name, rec) ==
    (IF Truthy(track_name) /\ Truthy(rec.trackName) THEN rec.tsim ELSE 0)
    + (IF Truthy(artist_name) /\ Truthy(rec.artistName) THEN rec.asim ELSE 0)

\* The scoring skipped, as when only q is given: data[0]
FirstCandidate(track_name, artist_name, data) == data[1]

\* max(data, key=_score): the first candidate of maximal score
MaxByScore(track_name, artist_name, data) ==
    LET best == CHOOSE i \in 1..Len(data) :
                    /\ \A j \in 1..Len(data) :
                          Score(track_name, artist_name, data[j])
                              <= Score(track_name, artist_name, data[i])
                    /\ \A j \in 1..(i - 1) :
                          Score(track_name, artist_name, data[j])
                              < Score(track_name, artist_name, data[i])
    IN  data[best]

\* Whether lrclib_search sends the request: "q" or "track_name" in params
LrcQueries(track_name, artist_name, q) == Truthy(q) \/ Truthy(track_name)

\* lrclib_search, resp being the answer of the request: kind "error" (the
\* request or r.json() raised), "notlist" (JSON that is no list) or "list"
lrclib_search(track_name, artist_name, q, resp) ==
    IF ~LrcQueries(track_name, artist_name, q) THEN None
    ELSE IF resp.kind # "list" \/ resp.data = <<>> THEN None
    ELSE IF Truthy(track_name) \/ Truthy(artist_name)
    THEN Some(MaxByScore(track_name, artist_name, resp.data))
    ELSE Some(resp.data[1])

\* A list entry that is no dict (a number), and a field value that is no
\* string (a number), written as a text whose only line is that number.
ScalarEntry == [scalar |-> 5]
NotText == <<[number |-> 5]>>

IsDict(e) == "scalar" \notin DOMAIN e
IsText(x) == \A i \in 1..Len(x) : "number" \notin DOMAIN x[i]

\* max(data, key=_score) calls rec.get on every entry, outside the try
lrclib_search_raises(track_name, artist_name, q, resp) ==
    /\ LrcQueries(track_name, artist_name, q)
    /\ resp.kind = "list" /\ resp.data # <<>>
    /\ Truthy(track_name) \/ Truthy(artist_name)
    /\ \E i \in 1..Len(resp.data) : ~IsDict(resp.data[i])

\* rec.get of an entry that is no dict; parse_lrc's text.splitlines() of a
\* truthy syncedLyrics that is no string
lrclib_to_lyrics_raises(rec) ==
    \/ ~IsDict(rec)
    \/ Truthy(rec.syncedLyrics) /\ ~IsText(rec.syncedLyrics[1])

\* lrclib_to_lyrics(rec) = (plain, cues)
lrclib_to_lyrics(rec) ==
    LET plain  == OrNone(rec.plainLyrics)
        synced == OrNone(rec.syncedLyrics)
        cues   == IF synced = None THEN None
                  ELSE IF parse_lrc(synced[1]) # <<>> THEN Some(parse_lrc(synced[1]))
                  ELSE parse_bracket_lrc(synced[1])
    IN  <<plain, cues>>

(* ------------------------------------------------------- the GitHub store *)

README == 0                \* the record "README.md"
FlagNames == {1, 2, 3}       \* the records "1", "2", "3"

\* What a person wrote by hand.
HumanContent == [human |-> TRUE]
\* The content code + "\n" of the flag record of a code.
FlagContent(c) == [flag |-> c, newline |-> TRUE]
\* A flag record with any other content (here: the code without the newline).
StaleFlag(c) == [flag |-> c, newline |-> FALSE]

\* repo.description or "": no description
NoDesc == [artist |-> <<>>, text |-> <<>>]

NoRepo == [exists |-> FALSE, description |-> NoDesc,
           readme |-> None, other |-> None, flags |-> [n \in FlagNames |-> None]]

\* any(f.name.lower() == "readme.md" for f in repo.get_contents(""))
HasReadme(st) == st.readme # None \/ st.other # None

\* The repository holds no file at all: the contents listing answers 404.
IsEmptyRepo(st) == st.readme = None /\ st.other = None /\ \A n \in FlagNames : st.flags[n] = None

\* A create-or-update of README.md (what lines 176-189 do for the flag record)
ReadmeWriteOrUpdate(st, content) ==
    IF st.exists THEN [res |-> "ok", st |-> [st EXCEPT !.readme = Some(content)]]
    ELSE [res |-> "gh", st |-> st]

\* repo.create_file("README.md", "Add lyrics", content, branch="main"): the
\* store's create is atomic and never replaces an existing path (it answers
\* 422, a GithubException).
ReadmeWrite(st, content) ==
    IF st.exists /\ st.readme = None
    THEN [res |-> "ok", st |-> [st EXCEPT !.readme = Some(content)]]
    ELSE [res |-> "gh", st |-> st]

(* ------------------------------------------------------------------ inputs *)

OneCue == <<Cue(1500, 5500, <<"a">>)>>
TwoCues == <<Cue(1500, 2950, <<"a", "\n", "b">>), Cue(61230, 65230, <<"b">>)>>

\* The arguments of one call.
Request(v, title, status, plain, cues, sc, yt, meta) ==
    [ variant |-> v, title |-> title, status |-> status, plain |-> plain, cues |-> cues,
      source_code |-> sc, yt_full_title |-> yt, music_meta |-> meta ]

Variants == {"core", "handler"}   \* lyrics_core.py, scripts/handle_issue.py

\* What the two racing calls are called with.
RaceRequests ==
    { Request(v, <<"t">>, "AutoSynced", pl[1], pl[2], sc, None, None) :
        v \in Variants,
        pl \in { <<None, None>>, <<Some(<<"a", " ">>), Some(OneCue)>> },
        sc \in {None, Some(2)} }

\* What the calls made one after the other are called with.
SeqRequests ==
    { Request(v, <<"t">>, status, pl[1], pl[2], sc, d[1], d[2]) :
        v \in Variants,
        status \in {"AutoPlain", NoLyrics},
        pl \in { <<None, None>>, <<Some(<<" ">>), Some(OneCue)>>, <<Some(<<"a">>), None>>,
                 <<None, Some(TwoCues)>>, <<Some(<<"a", " ">>), Some(OneCue)>> },
        sc \in {None, Some(1), Some(3)},
        d \in { <<None, None>>,
                <<Some(<<" ", "y">>), Some([artist |-> Some(<<"a">>), track |-> None])>>,
                <<None, Some([artist |-> Some(<<"a">>), track |-> Some(<<"b">>)])>> } }

RepoWith(d, readme, other, f) ==
    [ exists |-> TRUE, description |-> d, readme |-> readme, other |-> other,
      flags |-> [n \in FlagNames |->
                   CASE f[n] = "ok" -> Some(FlagContent(n))
                     [] f[n] = "stale" -> Some(StaleFlag(n))
                     [] OTHER -> None] ]

\* The stores a call may find: no repository, or one a person or an earlier
\* run has left: without a README (and with stale flag records), or with one.
InitStores ==
    {NoRepo} \cup
    { RepoWith(d, None, None, f) :
        d \in {NoDesc, [artist |-> <<>>, text |-> <<"t">>]},
        f \in { <<"absent", "absent", "absent">>, <<"ok", "stale", "absent">>,
                <<"stale", "ok", "ok">> } } \cup
    { RepoWith(NoDesc, Some(HumanContent), None, <<"absent", "absent", "absent">>),
      RepoWith(NoDesc, None, Some(HumanContent), <<"absent", "ok", "absent">>) }

(* ------------------------------------------------------ github_save_lyrics *)

IdleCall ==
    [ pc |-> "idle", variant |-> "core", content |-> HumanContent, desc |-> NoDesc,
      code |-> None, repoDesc |-> NoDesc, sha |-> None, n |-> 0,
      ret |-> "None", ops |-> {}, retried |-> FALSE, errs |-> 0, wrote |-> {},
      outcome |-> "none",
      conflict |-> FALSE, empty |-> FALSE ]

\* The local state of a call that has evaluated lines 100-132 (283-316).
NewCall(variant, title, status, plain, cues, source_code, yt_full_title, music_meta) ==
    [ IdleCall EXCEPT
        !.pc = "get_repo",
        !.variant = variant,
        !.content = ComposeContent(title, status, plain, cues, source_code),
        !.desc = DescOf(title, yt_full_title, music_meta),
        !.code = source_code,
        !.empty = BodyEmpty(serialize_lyrics(plain, cues)) ]

\* A store call: its result by the store's state, or an injected failure.
Results(natural) ==
    {[res |-> natural, fault |-> 0]} \cup
    (IF ghost.faults < MaxFaults
     THEN {[res |-> "gh", fault |-> 1], [res |-> "other", fault |-> 1]} ELSE {})

Fault(r) == [ghost EXCEPT !.faults = @ + r.fault]

\* The call has invoked the store operation op.
Invoke(c, op) == [c EXCEPT !.ops = @ \cup {op}, !.retried = @ \/ (op \in c.ops)]

\* The store call the call has just made ended as r says.
Invoked(c, op, r) ==
    [Invoke(c, op) EXCEPT !.errs = @ + (IF r.res = "ok" THEN 0 ELSE 1)]

\* An outer handler that names GithubException only
OuterCatchesGithubOnly(exc) == exc = "gh"

\* except Exception: return  (handle_issue.py: except GithubException / except
\* Exception, both printing and falling off the end)
OuterCatches(exc) == exc \in {"gh", "other"}

\* The end of the function is reached after README.md was written.
Finish(c) == [c EXCEPT !.pc = "done", !.outcome = "Created"]

\* for n in ("1", "2", "3"): if n == code_name: continue
NextSibling(c, n) ==
    LET later == {m \in FlagNames : m > n /\ Some(m) # c.code}
    IN  IF later = {} THEN 0 ELSE CHOOSE m \in later : \A k \in later : m <= k

\* The loop over the sibling flags goes on after sibling n, or ends.
AfterSibling(c, n) ==
    IF NextSibling(c, n) = 0 THEN [c EXCEPT !.pc = "get_code", !.n = 0]
    ELSE [c EXCEPT !.pc = "get_flag", !.n = NextSibling(c, n)]

\* The flag loop left out: the call ends once README.md is created
AfterReadmeNoFlag(c) == Finish(c)

\* if source_code is not None: ... (after README.md was created)
AfterReadme(c) == IF c.code = None THEN Finish(c) ELSE AfterSibling(c, 0)

\* A GithubException of the README create passed over like the other ones
EscapeIgnoringConflict(c, exc) ==
    IF exc = "gh" /\ c.pc = "create_readme" THEN AfterReadme(c)
    ELSE IF OuterCatches(exc) THEN [c EXCEPT !.pc = "done", !.outcome = "Failed"]
    ELSE [c EXCEPT !.pc = "raised", !.outcome = "Failed"]

\* An exception leaves the outermost try of github_save_lyrics.
Escape(c, exc) ==
    IF OuterCatches(exc) THEN [c EXCEPT !.pc = "done", !.outcome = "Failed"]
    ELSE [c EXCEPT !.pc = "raised", !.outcome = "Failed"]

\* The description edited on every call
NeedsEditAlways(repoDesc, desc) == TRUE

\* if (repo.description or "") != desc
NeedsEdit(repoDesc, desc) == repoDesc # desc

CallOf(q) ==
    NewCall(q.variant, q.title, q.status, q.plain, q.cues, q.source_code,
            q.yt_full_title, q.music_meta)

\* One of the two processes is called (p2 is the one called second).
StartRace(p) ==
    /\ call[p].pc = "idle"
    /\ p = "p2" => call["p1"].pc # "idle"
    /\ \E q \in RaceRequests : call' = [call EXCEPT ![p] = CallOf(q)]
    /\ ghost' = [ghost EXCEPT !.started = @ + 1]
    /\ UNCHANGED store
    /\ UNCHANGED <<hand, pls, fn>>

\* The single caller calls again.
StartSeq ==
    /\ call["p1"].pc = "idle"
    /\ ghost.started < MaxCalls
    /\ \E q \in SeqRequests : call' = [call EXCEPT !["p1"] = CallOf(q)]
    /\ ghost' = [ghost EXCEPT !.started = @ + 1]
    /\ UNCHANGED store
    /\ UNCHANGED <<hand, pls, fn>>

\* repo = _GH_USER.get_repo(repo_name)
GetRepo(p) ==
    /\ call[p].pc = "get_repo"
    /\ \E r \in Results(IF store.exists THEN "ok" ELSE "gh") :
          /\ call' = [call EXCEPT ![p] =
                LET c == Invoked(@, <<"get_repo", 0>>, r)
                IN  CASE r.res = "ok" -> [c EXCEPT !.pc = "list", !.repoDesc = store.description]
                      [] r.res = "gh" -> [c EXCEPT !.pc = "create_repo"]
                      [] OTHER -> Escape(c, r.res)]
          /\ ghost' = Fault(r)
    /\ UNCHANGED store
    /\ UNCHANGED <<hand, pls, fn>>

\* if any(f.name.lower() == "readme.md" for f in repo.get_contents("")): return
ListContents(p) ==
    /\ call[p].pc = "list"
    /\ \E r \in Results(IF store.exists /\ ~IsEmptyRepo(store) THEN "ok" ELSE "gh") :
          /\ call' = [call EXCEPT ![p] =
                LET c == Invoked(@, <<"get_contents", 0>>, r)
                IN  CASE r.res = "ok" /\ HasReadme(store) ->
                            [c EXCEPT !.pc = "done", !.outcome = "SkippedExisting"]
                      [] r.res = "ok" /\ ~HasReadme(store) -> [c EXCEPT !.pc = "edit_desc"]
                      [] r.res = "gh" -> [c EXCEPT !.pc = "edit_desc"]
                      [] OTHER -> Escape(c, r.res)]
          /\ ghost' = Fault(r)
    /\ UNCHANGED store
    /\ UNCHANGED <<hand, pls, fn>>

\* repo = _GH_USER.create_repo(repo_name, description=desc, ...), in the handler
\* of get_repo's GithubException
CreateRepo(p) ==
    /\ call[p].pc = "create_repo"
    /\ \E r \in Results(IF store.exists THEN "gh" ELSE "ok") :
          /\ call' = [call EXCEPT ![p] =
                LET c == Invoked(@, <<"create_repo", 0>>, r)
                IN  IF r.res = "ok"
                    THEN [c EXCEPT !.pc = IF c.variant = "handler" THEN "watch" ELSE "edit_desc",
                                   !.repoDesc = c.desc]
                    ELSE Escape(c, r.res)]
          /\ store' = IF r.res = "ok"
                      THEN [store EXCEPT !.exists = TRUE, !.description = call[p].desc]
                      ELSE store
          /\ ghost' = Fault(r)
    /\ UNCHANGED <<hand, pls, fn>>

\* handle_issue.py: gh_user.add_to_watched(repo), GithubException printed
Watch(p) ==
    /\ call[p].pc = "watch"
    /\ \E r \in Results("ok") :
          /\ call' = [call EXCEPT ![p] =
                LET c == Invoked(@, <<"add_to_watched", 0>>, r)
                IN  IF r.res \in {"ok", "gh"} THEN [c EXCEPT !.pc = "create_readme"]
                    ELSE Escape(c, r.res)]
          /\ ghost' = Fault(r)
    /\ UNCHANGED store
    /\ UNCHANGED <<hand, pls, fn>>

\* if (repo.description or "") != desc: repo.edit(description=desc), a
\* GithubException passed over
EditDesc(p) ==
    /\ call[p].pc = "edit_desc"
    /\ IF NeedsEdit(call[p].repoDesc, call[p].desc)
       THEN \E r \in Results(IF store.exists THEN "ok" ELSE "gh") :
               /\ call' = [call EXCEPT ![p] =
                     LET c == Invoked(@, <<"edit", 0>>, r)
                     IN  IF r.res \in {"ok", "gh"} THEN [c EXCEPT !.pc = "create_readme"]
                         ELSE Escape(c, r.res)]
               /\ store' = IF r.res = "ok"
                           THEN [store EXCEPT !.description = call[p].desc] ELSE store
               /\ ghost' = Fault(r)
       ELSE /\ call' = [call EXCEPT ![p].pc = "create_readme"]
            /\ UNCHANGED <<store, ghost>>
    /\ UNCHANGED <<hand, pls, fn>>

\* repo.create_file("README.md", "Add lyrics", content, branch="main")
CreateReadme(p) ==
    /\ call[p].pc = "create_readme"
    /\ LET w == ReadmeWrite(store, call[p].content)
       IN  \E r \in Results(w.res) :
              /\ call' = [call EXCEPT ![p] =
                    LET c == Invoked(@, <<"create_file", 0>>, r)
                    IN  IF r.res = "ok"
                        THEN LET d == [c EXCEPT !.wrote = @ \cup {README}]
                             IN  IF d.variant = "handler" /\ d.content.status = NoLyrics
                                 THEN [d EXCEPT !.pc = "star"]
                                 ELSE AfterReadme(d)
                        ELSE Escape([c EXCEPT !.conflict = (r.fault = 0)], r.res)]
              /\ store' = IF r.res = "ok" THEN w.st ELSE store
              /\ ghost' = [Fault(r) EXCEPT
                              !.creates = @ + (IF r.res = "ok" THEN 1 ELSE 0),
                              !.emptyCreated = @ \/ (r.res = "ok" /\ call[p].empty)]
    /\ UNCHANGED <<hand, pls, fn>>

\* handle_issue.py: repo.add_star() when the status is the no-lyrics status,
\* any Exception printed
Star(p) ==
    /\ call[p].pc = "star"
    /\ \E r \in Results("ok") :
          /\ call' = [call EXCEPT ![p] = AfterReadme(Invoked(@, <<"add_star", 0>>, r))]
          /\ ghost' = Fault(r)
    /\ UNCHANGED store
    /\ UNCHANGED <<hand, pls, fn>>

\* old = repo.get_contents(n), a GithubException passed over
GetFlag(p) ==
    /\ call[p].pc = "get_flag"
    /\ LET n == call[p].n
       IN  \E r \in Results(IF store.exists /\ store.flags[n] # None THEN "ok" ELSE "gh") :
              /\ call' = [call EXCEPT ![p] =
                    LET c == Invoked(@, <<"get_contents", n>>, r)
                    IN  CASE r.res = "ok" -> [c EXCEPT !.pc = "del_flag", !.sha = store.flags[n]]
                          [] r.res = "gh" -> AfterSibling(c, n)
                          [] OTHER -> Escape(c, r.res)]
              /\ ghost' = Fault(r)
    /\ UNCHANGED store
    /\ UNCHANGED <<hand, pls, fn>>

\* repo.delete_file(n, ..., old.sha, branch="main"), a GithubException passed over
DeleteFlag(p) ==
    /\ call[p].pc = "del_flag"
    /\ LET n == call[p].n
       IN  \E r \in Results(IF store.exists /\ store.flags[n] # None
                               /\ store.flags[n] = call[p].sha THEN "ok" ELSE "gh") :
              /\ call' = [call EXCEPT ![p] =
                    LET c == Invoked(@, <<"delete_file", n>>, r)
                    IN  IF r.res \in {"ok", "gh"} THEN AfterSibling(c, n)
                        ELSE Escape(c, r.res)]
              /\ store' = IF r.res = "ok" THEN [store EXCEPT !.flags[n] = None] ELSE store
              /\ ghost' = Fault(r)
    /\ UNCHANGED <<hand, pls, fn>>

\* f = repo.get_contents(code_name); if its content != content_code: update
GetCode(p) ==
    /\ call[p].pc = "get_code"
    /\ LET n == call[p].code[1]
       IN  \E r \in Results(IF store.exists /\ store.flags[n] # None THEN "ok" ELSE "gh") :
              /\ call' = [call EXCEPT ![p] =
                    LET c == Invoked(@, <<"get_contents", n>>, r)
                    IN  CASE r.res = "ok" /\ store.flags[n] # Some(FlagContent(n)) ->
                                [c EXCEPT !.pc = "update_code", !.sha = store.flags[n]]
                          [] r.res = "ok" /\ store.flags[n] = Some(FlagContent(n)) -> Finish(c)
                          [] r.res = "gh" -> [c EXCEPT !.pc = "create_code"]
                          [] OTHER -> Escape(c, r.res)]
              /\ ghost' = Fault(r)
    /\ UNCHANGED store
    /\ UNCHANGED <<hand, pls, fn>>

\* repo.update_file(code_name, ..., content_code, f.sha, branch="main"); its
\* GithubException is handled by the create below
UpdateCode(p) ==
    /\ call[p].pc = "update_code"
    /\ LET n == call[p].code[1]
       IN  \E r \in Results(IF store.exists /\ store.flags[n] # None
                               /\ store.flags[n] = call[p].sha THEN "ok" ELSE "gh") :
              /\ call' = [call EXCEPT ![p] =
                    LET c == Invoked(@, <<"update_file", n>>, r)
                    IN  CASE r.res = "ok" -> Finish([c EXCEPT !.wrote = @ \cup {n}])
                          [] r.res = "gh" -> [c EXCEPT !.pc = "create_code"]
                          [] OTHER -> Escape(c, r.res)]
              /\ store' = IF r.res = "ok"
                          THEN [store EXCEPT !.flags[n] = Some(FlagContent(n))] ELSE store
              /\ ghost' = Fault(r)
    /\ UNCHANGED <<hand, pls, fn>>

\* except GithubException: repo.create_file(code_name, ..., content_code)
CreateCode(p) ==
    /\ call[p].pc = "create_code"
    /\ LET n == call[p].code[1]
       IN  \E r \in Results(IF store.exists /\ store.flags[n] = None THEN "ok" ELSE "gh") :
              /\ call' = [call EXCEPT ![p] =
                    LET c == Invoked(@, <<"create_file", n>>, r)
                    IN  IF r.res = "ok" THEN Finish([c EXCEPT !.wrote = @ \cup {n}])
                        ELSE Escape(c, r.res)]
              /\ store' = IF r.res = "ok"
                          THEN [store EXCEPT !.flags[n] = Some(FlagContent(n))] ELSE store
              /\ ghost' = Fault(r)
    /\ UNCHANGED <<hand, pls, fn>>

\* The call has returned (or raised) to its caller.
Return(p) ==
    /\ call[p].pc \in {"done", "raised"}
    /\ call' = [call EXCEPT ![p] = IdleCall]
    /\ UNCHANGED <<store, ghost>>
    /\ UNCHANGED <<hand, pls, fn>>

SaveStep(p) ==
    \/ GetRepo(p) \/ ListContents(p) \/ CreateRepo(p) \/ Watch(p) \/ EditDesc(p)
    \/ CreateReadme(p) \/ Star(p) \/ GetFlag(p) \/ DeleteFlag(p) \/ GetCode(p)
    \/ UpdateCode(p) \/ CreateCode(p)

(* --------------------------------------------------- handle_issue.py main *)

\* The issue body: whether its first non-blank line holds " - ", the two
\* sides of it, and the video id found in the text (None when there is none).
IssueBody(sep, left, right, vid) == [sep |-> sep, left |-> left, right |-> right, vid |-> vid]

\* parse_issue_body(body) = (artist, title, video_id)
parse_issue_body(body) ==
    LET artist == IF body.sep /\ Strip(body.left) # <<>> THEN Some(Strip(body.left)) ELSE None
        title  == IF body.sep /\ Strip(body.right) # <<>> THEN Some(Strip(body.right)) ELSE None
    IN  <<artist, title, body.vid>>

\* The event file: {"action": ..., "issue": {"number": ..., "body": ...}}
Event(action, hasIssue, body) == [action |-> action, hasIssue |-> hasIssue, body |-> body]

VideoId == <<"y", "t">>

Events ==
    { Event("closed", TRUE, IssueBody(TRUE, <<"a">>, <<"t">>, Some(VideoId))),
      Event("opened", FALSE, IssueBody(FALSE, <<>>, <<>>, None)),
      Event("opened", TRUE, IssueBody(TRUE, <<"a">>, <<"t">>, None)),
      Event("opened", TRUE, IssueBody(TRUE, <<"a", " ">>, <<" ", "t">>, Some(VideoId))),
      Event("edited", TRUE, IssueBody(TRUE, <<"a">>, <<" ">>, Some(VideoId))),
      Event("edited", TRUE, IssueBody(TRUE, <<" ">>, <<"t">>, Some(VideoId))),
      Event("opened", TRUE, IssueBody(FALSE, <<>>, <<>>, Some(VideoId))) }

SyncedA == <<StampLine(FALSE, 0, 1, 2, 50, <<" ", "a">>), JunkLine>>
SyncedB == <<StampLine(TRUE, 1, 2, 1, 5, <<"b">>)>>

RecSynced == LrcRec(Some(<<"t">>), 100, Some(<<"a">>), 90, Some(<<"a", "\n", "b">>), Some(SyncedA))
RecPlain == LrcRec(Some(<<"t">>), 100, Some(<<"b">>), 40, Some(<<"a">>), None)
RecBracket == LrcRec(Some(<<"b">>), 30, None, 0, None, Some(SyncedB))
RecBare == LrcRec(None, 0, Some(<<"a">>), 100, Some(<<>>), Some(<<JunkLine>>))

RecNumber == LrcRec(Some(<<"t">>), 100, Some(<<"a">>), 90, Some(<<"a">>), Some(NotText))

\* What the request to /api/search is answered with.
LrcResponses ==
    { [kind |-> "error", data |-> <<>>],
      [kind |-> "notlist", data |-> <<>>],
      [kind |-> "list", data |-> <<>>],
      [kind |-> "list", data |-> <<RecSynced>>],
      [kind |-> "list", data |-> <<RecPlain, RecSynced>>],
      [kind |-> "list", data |-> <<RecBracket, RecPlain>>],
      [kind |-> "list", data |-> <<RecBare>>],
      [kind |-> "list", data |-> <<ScalarEntry>>],
      [kind |-> "list", data |-> <<RecNumber>>] }

\* str(None), as an f-string prints it
StrOfNone == <<"N", "o", "n", "e">>

\* main() before it starts.
HandOff ==
    [ pc |-> "off", artist |-> None, title |-> None, video_id |-> None, rec |-> None,
      plain |-> None, cues |-> None, status |-> NoLyrics, src_label |-> "none",
      saveError |-> FALSE, kind |-> "none", comments |-> 0, lrclib |-> 0, scraped |-> 0,
      searchRaised |-> FALSE, error |-> "none", action |-> "none", hasIssue |-> FALSE ]

\* Any status other than the one main computes from what it found
MainStatusSyncedOnly(rec, plain, cues) ==
    IF rec # None /\ Truthy(cues) THEN "AutoSynced" ELSE NoLyrics

\* if rec: ... if cues / elif plain / else; else: status = "歌詞の登録なし"
MainStatus(rec, plain, cues) ==
    IF rec = None THEN NoLyrics
    ELSE IF Truthy(cues) THEN "AutoSynced"
    ELSE IF Truthy(plain) THEN "AutoPlain"
    ELSE NoLyrics

\* x.get(k) if rec else None
RecGet(rec, k) == IF rec = None THEN None ELSE rec[1][k]

\* title or (rec.get("trackName") if rec else video_id), as the heading prints it
MainTitle(title, rec, video_id) ==
    IF Truthy(title) THEN title[1]
    ELSE IF rec = None THEN video_id[1]
    ELSE IF rec[1].trackName = None THEN StrOfNone ELSE rec[1].trackName[1]

\* music_meta = {"artist": artist or ..., "track": title or ..., ...}
MainMeta(artist, title, rec) ==
    [ artist |-> IF Truthy(artist) THEN artist ELSE RecGet(rec, "artistName"),
      track  |-> IF Truthy(title) THEN title ELSE RecGet(rec, "trackName") ]

\* gh.get_repo(repo_name): the repository the issue lives in.
MainGetActionsRepo ==
    /\ hand.pc = "off"
    /\ \E r \in Results("ok") :
          /\ hand' = IF r.res = "ok" THEN [hand EXCEPT !.pc = "load"]
                     ELSE [hand EXCEPT !.pc = "crashed", !.error = "github"]
          /\ ghost' = Fault(r)
    /\ UNCHANGED <<store, call, pls, fn>>

\* load_github_event() up to the parsed issue body: lines 462-481.
MainLoad ==
    /\ hand.pc = "load"
    /\ \E ev \in Events :
          LET parsed == parse_issue_body(ev.body)
          IN  hand' =
                IF ~ev.hasIssue \/ ev.action \notin {"opened", "edited"}
                THEN [hand EXCEPT !.pc = "end", !.action = ev.action,
                                   !.hasIssue = ev.hasIssue]
                ELSE [hand EXCEPT
                        !.action = ev.action, !.hasIssue = ev.hasIssue,
                        !.artist = parsed[1], !.title = parsed[2], !.video_id = parsed[3],
                        !.pc = IF Truthy(parsed[3]) THEN "search" ELSE "get_issue",
                        !.kind = IF Truthy(parsed[3]) THEN "none" ELSE "failure"]
    /\ UNCHANGED <<store, call, ghost, pls, fn>>

\* The LrcLib search, the status, and the call of github_save_lyrics: 496-555.
\* An exception of lrclib_search is caught (514-515); one of lrclib_to_lyrics
\* (521) is not, and ends main.
MainSearch ==
    /\ hand.pc = "search"
    /\ \E resp \in LrcResponses :
          LET named  == Truthy(hand.title) \/ Truthy(hand.artist)
              track  == OrNone(hand.title)
              artist == OrNone(hand.artist)
              q      == IF named THEN None ELSE hand.video_id
              raised == lrclib_search_raises(track, artist, q, resp)
              rec    == IF raised THEN None ELSE lrclib_search(track, artist, q, resp)
              asked  == IF LrcQueries(track, artist, q) THEN 1 ELSE 0
              found  == IF rec = None THEN <<None, None>> ELSE lrclib_to_lyrics(rec[1])
              status == MainStatus(rec, found[1], found[2])
          IN  IF rec # None /\ lrclib_to_lyrics_raises(rec[1])
              THEN /\ hand' = [hand EXCEPT !.pc = "crashed", !.error = "lookup",
                                           !.rec = rec, !.lrclib = @ + asked]
                   /\ UNCHANGED <<call, ghost>>
              ELSE /\ hand' = [hand EXCEPT
                                 !.pc = "save", !.rec = rec, !.plain = found[1],
                                 !.cues = found[2], !.status = status,
                                 !.src_label = "LrcLib", !.searchRaised = raised,
                                 !.lrclib = @ + asked]
                   /\ call' = [call EXCEPT !["p1"] =
                                 NewCall("handler", MainTitle(hand.title, rec, hand.video_id),
                                         status, found[1], found[2], Some(1), None,
                                         Some(MainMeta(hand.artist, hand.title, rec)))]
                   /\ ghost' = [ghost EXCEPT !.started = @ + 1]
    /\ UNCHANGED <<store, pls, fn>>

\* github_save_lyrics has returned or raised: 556-568.
MainAfterSave ==
    /\ hand.pc = "save"
    /\ call["p1"].pc \in {"done", "raised"}
    /\ hand' = [hand EXCEPT !.pc = "get_issue", !.kind = "result",
                            !.saveError = (call["p1"].pc = "raised")]
    /\ UNCHANGED <<store, call, ghost, pls, fn>>

\* comment_to_issue: repo.get_issue(number=issue_number)
MainGetIssue ==
    /\ hand.pc = "get_issue"
    /\ \E r \in Results("ok") :
          /\ hand' = IF r.res = "ok" THEN [hand EXCEPT !.pc = "create_comment"]
                     ELSE [hand EXCEPT !.pc = "crashed", !.error = "github"]
          /\ ghost' = Fault(r)
    /\ UNCHANGED <<store, call, pls, fn>>

\* comment_to_issue: issue.create_comment(body)
MainCreateComment ==
    /\ hand.pc = "create_comment"
    /\ \E r \in Results("ok") :
          /\ hand' = IF r.res = "ok" THEN [hand EXCEPT !.pc = "end", !.comments = @ + 1]
                     ELSE [hand EXCEPT !.pc = "crashed", !.error = "github"]
          /\ ghost' = Fault(r)
    /\ UNCHANGED <<store, call, pls, fn>>

MainStep ==
    \/ MainGetActionsRepo \/ MainLoad \/ MainSearch \/ MainAfterSave
    \/ MainGetIssue \/ MainCreateComment

(* ------------------------------------------------ the parsers, on their own *)

\* No pure function has been called.
FnOff == [pc |-> "off"]

\* The lines a synced text is made of: [00:01] a, [01:02.50] a, [00:01.500]b,
\* a marker after blanks, a one-digit fraction, a marker with a blank body,
\* and a line without a marker.
LrcLines ==
    { StampLine(FALSE, 0, 1, 0, 0, <<" ", "a">>),
      StampLine(FALSE, 1, 2, 2, 50, <<" ", "a">>),
      StampLine(FALSE, 0, 1, 3, 500, <<"b">>),
      StampLine(TRUE, 0, 3, 1, 2, <<"b", " ">>),
      StampLine(FALSE, 0, 0, 2, 7, <<"a", " ", "b">>),
      StampLine(FALSE, 0, 2, 2, 50, <<" ">>),
      JunkLine }

RECURSIVE TextsOfLen(_)
TextsOfLen(n) ==
    IF n = 0 THEN {<<>>}
    ELSE { Append(t, l) : t \in TextsOfLen(n - 1), l \in LrcLines }

LrcTexts == UNION { TextsOfLen(n) : n \in 0..MaxLines }

\* f"[{mm:02d}:{ss:02d}.{cs:02d}] {text}" as a line of the text to parse: a
\* minute of three digits is no marker for either parser; "" is no marker
RenderLine(l) ==
    IF "blank" \in DOMAIN l THEN JunkLine
    ELSE IF l.mm >= 100 THEN JunkLine
    ELSE StampLine(FALSE, l.mm, l.ss, IF l.cs >= 100 THEN 3 ELSE 2, l.cs, <<" ">> \o l.text)

\* "\n".join(out), read back with splitlines()
Render(body) == [i \in 1..Len(body.lines) |-> RenderLine(body.lines[i])]

\* parse_lrc(text) and parse_bracket_lrc(text) of one text.
ParseText ==
    /\ fn.pc = "off"
    /\ \E text \in LrcTexts :
          fn' = [pc |-> "parsed", text |-> text, a |-> parse_lrc(text),
                 b |-> parse_bracket_lrc(text)]
    /\ UNCHANGED <<store, call, ghost, hand, pls>>

\* _serialize_lyrics(None, cues) of each result, parsed again by the same parser.
RoundTrip ==
    /\ fn.pc = "parsed"
    /\ LET sa == serialize_lyrics(None, Some(fn.a))
           sb == serialize_lyrics(None, fn.b)
       IN  fn' = [pc |-> "reparsed", text |-> fn.text, a |-> fn.a, b |-> fn.b,
                  sa |-> sa, sb |-> sb,
                  ra |-> parse_lrc(Render(sa)),
                  rb |-> parse_bracket_lrc(Render(sb))]
    /\ UNCHANGED <<store, call, ghost, hand, pls>>

(* -------------------------------------------- lrclib_search, on its own *)

\* Candidates of one answer: same track name with artist similarity 90 and
\* 40, two different ways to the sum 140, one without artist name, one
\* without any name.
Candidates ==
    { LrcRec(Some(<<"t">>), 100, Some(<<"a">>), 90, None, None),
      LrcRec(Some(<<"t">>), 100, Some(<<"b">>), 40, None, None),
      LrcRec(Some(<<"b">>), 60, Some(<<"a", "b">>), 80, None, None),
      LrcRec(Some(<<"t">>), 100, None, 0, None, None),
      LrcRec(None, 0, Some(<<>>), 0, None, None) }

RECURSIVE ListsOfLen(_)
ListsOfLen(n) ==
    IF n = 0 THEN {<<>>}
    ELSE { Append(d, c) : d \in ListsOfLen(n - 1), c \in Candidates }

CandidateLists == UNION { ListsOfLen(n) : n \in 1..MaxCands }

\* lrclib_search(track_name="t", artist_name="a") answered with a list.
ScoreSearch ==
    /\ fn.pc = "off"
    /\ \E data \in CandidateLists :
          fn' = [pc |-> "searched", data |-> data,
                 ret |-> lrclib_search(Some(<<"t">>), Some(<<"a">>), None,
                                       [kind |-> "list", data |-> data])]
    /\ UNCHANGED <<store, call, ghost, hand, pls>>

(* ------------------------------------------------------- pl_search_smart *)

\* A title as the list of its pieces: a separator SEP_ANY matches ("-") or a
\* run of text between separators (already trimmed by _clean_title_for_song).
Sep == "-"

\* parts = [p.strip() for p in SEP_ANY.split(tgt) if p.strip()]
Parts(t) == SelectSeq(t, LAMBDA x : x # Sep)

\* song_only(text): the last part when there are two or more, else the text
song_only(t) ==
    IF t = <<>> THEN <<>>
    ELSE IF Len(Parts(t)) >= 2 THEN <<Parts(t)[Len(Parts(t))]>> ELSE t

RawTitles == { <<>>, <<"a">>, <<"a", Sep, "b">>, <<Sep, "b">> }

\* pl_search_smart before it is called.
PlOff == [pc |-> "off", q |-> <<>>, page |-> <<>>, ret |-> None, requests |-> 0]

\* score_cutoff=82
SmartCutoff == 82

\* One anchor /lyrics/<id> of the result page: whether its title contains
\* the query, and fuzz.token_set_ratio of the query and its title.
Entry(id, contains, score) == [id |-> id, contains |-> contains, score |-> score]

Entries ==
    { Entry(7, TRUE, 100), Entry(8, FALSE, 50), Entry(9, FALSE, 82), Entry(0, TRUE, 100),
      Entry(5, FALSE, 81) }

\* The answer to GET /search_lyrics: a failure, or the anchors of the page.
PlResponses ==
    { [ok |-> FALSE, page |-> <<>>], [ok |-> TRUE, page |-> <<>>] } \cup
    { [ok |-> TRUE, page |-> <<e>>] : e \in Entries } \cup
    { [ok |-> TRUE, page |-> <<e, f>>] : e \in Entries, f \in Entries }

\* The loop of pl_search_fuzzy from candidate i on: the first of the best.
RECURSIVE FuzzyBest(_, _, _, _)
FuzzyBest(cand, i, best_id, best_score) ==
    IF i > Len(cand) THEN [id |-> best_id, score |-> best_score]
    ELSE IF cand[i].score > best_score
    THEN FuzzyBest(cand, i + 1, Some(cand[i].id), cand[i].score)
    ELSE FuzzyBest(cand, i + 1, best_id, best_score)

\* pl_search(title) on the answer resp: the id of the first anchor
pl_search(resp) ==
    IF ~resp.ok \/ resp.page = <<>> THEN None ELSE Some(resp.page[1].id)

\* pl_search_fuzzy(title, score_cutoff) on the answer resp
pl_search_fuzzy(resp, score_cutoff) ==
    IF ~resp.ok \/ resp.page = <<>> THEN None
    ELSE LET best == FuzzyBest(resp.page, 1, None, -1)
         IN  IF best.score >= score_cutoff THEN best.id ELSE None

\* q = song_only(raw_title); if not q: return None
PlStart ==
    /\ pls.pc = "off"
    /\ \E raw \in RawTitles :
          pls' = IF song_only(raw) = <<>> THEN [pls EXCEPT !.pc = "done", !.ret = None]
                 ELSE [pls EXCEPT !.pc = "exact", !.q = song_only(raw)]
    /\ UNCHANGED <<store, call, ghost, hand, fn>>

\* pid = pl_search(q); if pid: return pid
PlExact ==
    /\ pls.pc = "exact"
    /\ \E resp \in PlResponses :
          LET pid == pl_search(resp)
          IN  pls' = IF pid # None /\ pid[1] # 0
                     THEN [pls EXCEPT !.pc = "done", !.ret = pid, !.page = resp.page,
                                      !.requests = @ + 1]
                     ELSE [pls EXCEPT !.pc = "fuzzy", !.requests = @ + 1]
    /\ UNCHANGED <<store, call, ghost, hand, fn>>

\* return pl_search_fuzzy(q, score_cutoff=82)
PlFuzzy ==
    /\ pls.pc = "fuzzy"
    /\ \E resp \in PlResponses :
          pls' = [pls EXCEPT !.pc = "done", !.ret = pl_search_fuzzy(resp, SmartCutoff),
                             !.page = resp.page, !.requests = @ + 1]
    /\ UNCHANGED <<store, call, ghost, hand, fn>>

(* ------------------------------------------- _guess_meta_when_missing *)

\* A title or channel name as the list of its pieces: a name ("s", "a"), a
\* run of kana or kanji ("j"), a separator of SEP_META (Sep), a bracketed
\* group at the end of a title ("(q)"), a qualifier word such as
\* "Official Video" or "MV" ("q"), the channel suffix " - Topic" ("-topic")
\* and the channel word "official".

\* re.sub(r"[\(\[...].*?[\)...]\s*$", "", t): from the first bracket to the
\* end, when the text ends with a closing bracket
RECURSIVE UpToBracket(_)
UpToBracket(t) ==
    IF t = <<>> \/ Head(t) = "(q)" THEN <<>> ELSE <<Head(t)>> \o UpToBracket(Tail(t))

StripTrailingBracket(t) ==
    IF t # <<>> /\ t[Len(t)] = "(q)" THEN UpToBracket(t) ELSE t

\* [p for p in SEP_META.split(t) if p], the pieces of t from i on, cur being
\* the part being read
RECURSIVE MetaParts(_, _, _)
MetaParts(t, i, cur) ==
    IF i > Len(t) THEN (IF cur = <<>> THEN <<>> ELSE <<cur>>)
    ELSE IF t[i] = Sep
    THEN (IF cur = <<>> THEN <<>> ELSE <<cur>>) \o MetaParts(t, i + 1, <<>>)
    ELSE MetaParts(t, i + 1, Append(cur, t[i]))

\* jp_long: the longest run of kana and kanji, None when there is none
JpLong(t) == IF \E i \in 1..Len(t) : t[i] = "j" THEN Some(<<"j">>) ELSE None

\* .strip(" -...") of a list of pieces
RECURSIVE StripSeps(_)
StripSeps(t) ==
    IF t # <<>> /\ Head(t) = Sep THEN StripSeps(Tail(t))
    ELSE IF t # <<>> /\ t[Len(t)] = Sep THEN StripSeps(SubSeq(t, 1, Len(t) - 1))
    ELSE t

\* _clean_channel_name(name)
clean_channel_name(name) ==
    IF ~Truthy(name) THEN None
    ELSE LET n0 == name[1]
             n1 == IF n0[Len(n0)] = "-topic" THEN SubSeq(n0, 1, Len(n0) - 1) ELSE n0
             n2 == StripSeps(SelectSeq(n1, LAMBDA x : x # "official"))
         IN  IF n2 = <<>> THEN None ELSE Some(n2)

\* _trim_noise(s)
trim_noise(x) ==
    IF ~Truthy(x) THEN None
    ELSE LET y == StripSeps(SelectSeq(x[1], LAMBDA w : w # "q"))
         IN  IF y = <<>> THEN None ELSE Some(y)

\* fuzz.token_set_ratio(ch, x) >= 70: the two names are the same name
SimilarNames(x, y) == x = y

\* _guess_from_title_and_channel(title, channel) = (artist, track)
guess_from_title_and_channel(title, channel) ==
    IF title = <<>> THEN <<None, None>>
    ELSE LET t      == StripTrailingBracket(title)
             parts  == MetaParts(t, 1, <<>>)
             two    == Len(parts) >= 2
             left   == IF two THEN Some(parts[1]) ELSE None
             right  == IF two THEN Some(parts[Len(parts)]) ELSE None
             track1 == IF ~Truthy(right) /\ JpLong(t) # None THEN JpLong(t) ELSE right
             ch     == clean_channel_name(channel)
             swap   == /\ Truthy(ch) /\ Truthy(left)
                       /\ ~SimilarNames(ch[1], left[1])
                       /\ two /\ SimilarNames(ch[1], parts[Len(parts)])
             artist == IF swap THEN right ELSE left
             track2 == IF swap THEN left ELSE track1
             artist2 == IF Truthy(ch) /\ ~Truthy(artist) THEN ch ELSE artist
         IN  <<trim_noise(artist2), trim_noise(track2)>>

\* _parse_provided_block(desc) = (artist, track, album); desc is None, a text
\* with the line "left · right" after "Provided to YouTube by", or another text
parse_provided_block(desc) ==
    IF desc = None THEN <<None, None, None>>
    ELSE IF desc[1].kind = "provided" /\ desc[1].left # <<>> /\ desc[1].right # <<>>
    THEN <<Some(desc[1].right), Some(desc[1].left), None>>
    ELSE <<None, None, None>>

\* len(first) <= 80
MaxChapterLen == 80

\* info: description, title, uploader or channel, chapters
Info(desc, title, channel, chapters) ==
    [description |-> desc, title |-> title, channel |-> channel, chapters |-> chapters]

\* _guess_meta_when_missing(info) = (artist, track, album)
guess_meta_when_missing(info) ==
    LET p == parse_provided_block(info.description)
        g == guess_from_title_and_channel(info.title, info.channel)
    IN  IF Truthy(p[1]) \/ Truthy(p[2]) THEN p
        ELSE IF Truthy(g[1]) \/ Truthy(g[2]) THEN <<g[1], g[2], None>>
        ELSE IF info.chapters # None /\ info.chapters[1].title # <<>>
                /\ info.chapters[1].len <= MaxChapterLen
        THEN <<None, Some(info.chapters[1].title), None>>
        ELSE <<None, None, None>>

Titles ==
    { <<>>, <<"s">>, <<"s", "(q)">>, <<"s", "q">>, <<"j", "(q)">>,
      <<"a", Sep, "s", "(q)">>, <<"s", Sep, "a">> }

Channels == { None, Some(<<"a", "-topic">>), Some(<<"a", "official">>), Some(<<"-topic">>) }

Descriptions ==
    { None, Some([kind |-> "other", left |-> <<>>, right |-> <<>>]),
      Some([kind |-> "provided", left |-> <<"s">>, right |-> <<"a">>]) }

Chapters == { None, Some([title |-> <<"s">>, len |-> 5]), Some([title |-> <<"s">>, len |-> 81]) }

\* _guess_meta_when_missing of one info dict.
GuessMeta ==
    /\ fn.pc = "off"
    /\ \E d \in Descriptions, t \in Titles, c \in Channels, ch \in Chapters :
          fn' = [pc |-> "guessed", info |-> Info(d, t, c, ch),
                 ret |-> guess_meta_when_missing(Info(d, t, c, ch))]
    /\ UNCHANGED <<store, call, ghost, hand, pls>>

(* ----------------------------------------------------------- specification *)


Init ==
    /\ store \in InitStores
    /\ call = [p \in Procs |-> IdleCall]
    /\ ghost = [faults |-> 0, started |-> 0, creates |-> 0, emptyCreated |-> FALSE,
                init |-> store]
    /\ hand = HandOff
    /\ pls = PlOff
    /\ fn = FnOff

\* Two calls for one identifier, interleaved at any store call.
Next == \E p \in Procs : StartRace(p) \/ SaveStep(p)

Spec == Init /\ [][Next]_vars

\* One caller, calls one after the other.
NextSeq == StartSeq \/ SaveStep("p1") \/ Return("p1")

SpecSeq == Init /\ [][NextSeq]_vars

\* One run of the issue handler.
NextMain == MainStep \/ SaveStep("p1")

SpecMain == Init /\ [][NextMain]_vars

\* One call of pl_search_smart.
NextPl == PlStart \/ PlExact \/ PlFuzzy

SpecPl == Init /\ [][NextPl]_vars

\* The parsers applied to one text, and the round trip of their results.
NextParse == ParseText \/ RoundTrip

SpecParse == Init /\ [][NextParse]_vars

\* lrclib_search applied to one candidate list.
NextScore == ScoreSearch

SpecScore == Init /\ [][NextScore]_vars

\* The normalizer applied to one info dict.
NextGuess == GuessMeta

SpecGuess == Init /\ [][NextGuess]_vars

(* ------------------------------------------------------------------ claims *)

AllDone == \A p \in Procs : call[p].pc \in {"done", "raised"}

\* The store held no README (in any letter case) before the first call.
NoReadmeAtStart == ghost.init.readme = None /\ ghost.init.other = None

\* C1: once README.md exists, no step of any call (whatever its arguments, a
\* failing store call included) changes its content.
C1_ReadmeNeverChanged == [][store.readme # None => store'.readme = store.readme]_vars

\* C1 witness: README.md exists and a call whose create of it was refused has ended.
C1_Witness ==
    \E p \in Procs : call[p].pc = "done" /\ call[p].conflict /\ store.readme # None

\* C2: with README.md absent at the start, at most one create of README.md
\* succeeds, exactly one once both calls have ended without an injected
\* failure; README.md is the content of the call that created it; a call whose
\* create was refused has ended without raising and has written no record.
C2_RaceOneWriter ==
    NoReadmeAtStart =>
        /\ ghost.creates <= 1
        /\ (AllDone /\ ghost.faults = 0) => ghost.creates = 1
        /\ \A p \in Procs : README \in call[p].wrote => store.readme = Some(call[p].content)
        /\ \A p \in Procs : call[p].conflict => call[p].pc = "done" /\ call[p].wrote = {}

\* C2 witness: both calls have ended, one created README.md and the other's
\* create was refused.
C2_Witness ==
    /\ NoReadmeAtStart /\ AllDone /\ ghost.creates = 1
    /\ \E p, q \in Procs : p # q /\ README \in call[p].wrote /\ call[q].conflict
                           /\ call[q].content # call[p].content

\* C3 (as claimed): when a call has ended after writing the flag record of its
\* code c, the flag records are exactly the record c, holding c and a newline.
C3_ExactlyOneFlag ==
    \A p \in Procs :
        (call[p].pc = "done" /\ call[p].code # None /\ call[p].code[1] \in call[p].wrote) =>
            \A n \in FlagNames :
                store.flags[n] = IF Some(n) = call[p].code THEN Some(FlagContent(n)) ELSE None

\* C5: no call raises to its caller, and no call makes the same store call twice.
C5_NeverRaisesNeverRetries ==
    \A p \in Procs : call[p].pc # "raised" /\ ~call[p].retried

\* C5 witness: a call has ended normally after a store call of its own failed
\* with an exception that is no GithubException.
C5_Witness ==
    \E p \in Procs : call[p].pc = "done" /\ call[p].outcome = "Failed" /\ call[p].errs > 0
                     /\ ghost.faults > 0 /\ <<"create_repo", 0>> \notin call[p].ops
                     /\ ~call[p].conflict /\ <<"get_contents", 0>> \in call[p].ops

RepoFound(c) == <<"get_contents", 0>> \in c.ops
Edited(c) == <<"edit", 0>> \in c.ops
PastEdit(c) == c.pc = "create_readme" \/ <<"create_file", 0>> \in c.ops

\* C6 (as claimed): a call that found the repository has reconciled the
\* description whether or not README.md was present: once it has ended
\* without any failure, the description is the call's.
C6_DescriptionAlwaysReconciled ==
    \A p \in Procs :
        (call[p].pc = "done" /\ RepoFound(call[p]) /\ call[p].errs = 0 /\ ghost.faults = 0) =>
            store.description = call[p].desc

\* C6 (amended): a call that found README.md present has returned without
\* editing the description or writing anything; a call that found the
\* repository without README.md has edited the description if and only if the
\* description it fetched differed from its own, and (no store call failing)
\* the description is then the call's.
C6_DescriptionReconciledWhenNoReadme ==
    \A p \in Procs :
        /\ call[p].outcome = "SkippedExisting" =>
              ~Edited(call[p]) /\ call[p].wrote = {} /\ store.description = call[p].repoDesc
        /\ (RepoFound(call[p]) /\ PastEdit(call[p]) /\ call[p].outcome # "SkippedExisting") =>
              /\ Edited(call[p]) <=> call[p].repoDesc # call[p].desc
              /\ ghost.faults = 0 => store.description = call[p].desc

\* C6 witness: a call found the repository without README.md and with another
\* description, and has edited it.
C6_Witness ==
    \E p \in Procs : /\ RepoFound(call[p]) /\ Edited(call[p]) /\ call[p].pc = "create_readme"
                     /\ store.description = call[p].desc /\ ghost.init.description # call[p].desc

HeadingOnlyNoLyrics(r) ==
    r # HumanContent /\ r.status = NoLyrics /\ ~r.fenced /\ r.lang = "" /\ BodyEmpty(r.body)

\* C7: a call with an empty serialized body that finds no README.md creates it
\* (it ends Created when no store call fails); once such a call has created
\* README.md, README.md is the heading alone with the no-lyrics status, and
\* stays so through every later call.
C7_EmptyBodyTerminal ==
    /\ ghost.emptyCreated => store.readme # None /\ HeadingOnlyNoLyrics(store.readme[1])
    /\ \A p \in Procs :
          (call[p].pc = "done" /\ call[p].empty /\ ghost.faults = 0) =>
              call[p].outcome \in {"Created", "SkippedExisting"}
    /\ \A p \in Procs :
          (call[p].empty /\ README \in call[p].wrote) => HeadingOnlyNoLyrics(call[p].content)

\* C7 witness: after a call with an empty body created README.md, a later call
\* carrying lyrics has ended and README.md is still the heading alone.
C7_Witness ==
    /\ ghost.emptyCreated /\ ghost.started = 2 /\ store.readme # None
    /\ HeadingOnlyNoLyrics(store.readme[1])
    /\ call["p1"].pc = "done" /\ ~call["p1"].empty /\ call["p1"].outcome = "SkippedExisting"

\* C8 (as claimed): a fence tagged lrc encloses the LRC lines of the cues, an
\* untagged fence plain text.
C8_CuesTakePrecedence ==
    (store.readme # None /\ store.readme[1] # HumanContent /\ store.readme[1].fenced) =>
        /\ store.readme[1].lang = "lrc" => store.readme[1].body.kind = "lrc"
        /\ store.readme[1].lang = "" => store.readme[1].body.kind = "plain"

\* main has had github_save_lyrics's answer.
Saved == hand.kind = "result"

\* C4: github_save_lyrics tells its caller which outcome occurred, so a save
\* that failed after the existence check is surfaced to the issue handler (by
\* the returned value or by an exception that main reports in its comment) and
\* is distinguishable from a successful create.
C4_FailureSurfaced ==
    Saved /\ call["p1"].outcome = "Failed"
        => call["p1"].ret = "Failed" \/ hand.saveError

\* main has searched and computed its status.
Resolved == hand.pc = "save" \/ Saved

C10_OnlyMatchingResult ==
    pls.pc = "done" /\ pls.ret # None =>
        \E i \in 1..Len(pls.page) :
            /\ pls.page[i].id = pls.ret[1]
            /\ pls.page[i].contains \/ pls.page[i].score >= SmartCutoff

\* C11: a transport failure or a malformed answer of the lyric database (no
\* JSON, no list, entries that are no records, lyric fields of a wrong type)
\* only makes that lookup give no result: lrclib_search and lrclib_to_lyrics
\* do not raise, and the handler goes on to the save and the comment.
C11_LookupFailureIsolated ==
    hand.lrclib >= 1 => ~hand.searchRaised /\ hand.error # "lookup"

Parsed == fn.pc \in {"parsed", "reparsed"}

\* The cues of parse_bracket_lrc, None read as no cue.
CuesOf(b) == IF b = None THEN <<>> ELSE b[1]

SortedByStart(cues) ==
    \A i \in 1..Len(cues) : \A j \in i..Len(cues) : cues[i].start <= cues[j].start

\* C12: for every input text the cue list of parse_lrc and the cue list of
\* parse_bracket_lrc are ordered by start ascending, also when the stamped
\* lines of the text are not in time order.
C12_CuesSortedByStart ==
    Parsed => SortedByStart(fn.a) /\ SortedByStart(CuesOf(fn.b))

EndsAsSynthesized(cues) ==
    \A i \in 1..Len(cues) :
        /\ cues[i].end > cues[i].start
        /\ i < Len(cues) =>
              /\ cues[i].end >= cues[i].start + 100
              /\ cues[i].end >= cues[i + 1].start - 50
              /\ cues[i].end \in {cues[i].start + 100, cues[i + 1].start - 50}
        /\ i = Len(cues) => cues[i].end = cues[i].start + 4000

\* C13: every cue of parse_lrc and of parse_bracket_lrc has end > start: a
\* cue that is not the last ends at max(start + 0.1, next start - 0.05), the
\* last one at start + 4.0, for equal or decreasing timestamps too.
C13_EndAfterStart ==
    Parsed => EndsAsSynthesized(fn.a) /\ EndsAsSynthesized(CuesOf(fn.b))

\* Both parsers gave two cues with decreasing starts, the first ending 0.1 s
\* after its start.
C13_Witness ==
    /\ Parsed
    /\ Len(fn.a) = 2 /\ fn.a[1].start > fn.a[2].start
    /\ fn.a[1].end = fn.a[1].start + 100
    /\ Len(CuesOf(fn.b)) = 2 /\ fn.b[1][1].start > fn.b[1][2].start
    /\ fn.b[1][1].end = fn.b[1][1].start + 100

Abs(x) == IF x < 0 THEN -x ELSE x

SameCues(x, y) ==
    /\ Len(x) = Len(y)
    /\ \A i \in 1..Len(x) :
          Abs(x[i].start - y[i].start) <= 10 /\ x[i].text = y[i].text

\* C14: serializing the cues a parser produced with _serialize_lyrics and
\* parsing that text again gives as many cues, each starting within 10 ms of
\* the original and with the same text.
C14_RoundTrip ==
    fn.pc = "reparsed" => SameCues(fn.a, fn.ra) /\ SameCues(CuesOf(fn.b), CuesOf(fn.rb))

\* The fraction field of fd digits and value fv, right-padded to milliseconds.
PaddedMs(fd, fv) ==
    CASE fd = 0 -> 0 [] fd = 1 -> fv * 100 [] fd = 2 -> fv * 10 [] OTHER -> fv

\* C15: parse_lrc reads a fraction of 1 to 3 digits as a decimal fraction of
\* a second, so that [01:02.50] starts at 62.5 s, and a marker without a
\* fraction at the whole second.
C15_FractionIsDecimal ==
    Parsed /\ Len(fn.text) = 1 /\ Len(fn.a) = 1 =>
        fn.a[1].start = (fn.text[1].mm * 60 + fn.text[1].ss) * 1000
                        + PaddedMs(fn.text[1].fd, fn.text[1].fv)

\* Track similarity plus artist similarity, a missing or empty name counting 0.
Summed(rec) ==
    (IF rec.trackName \in {None, Some(<<>>)} THEN 0 ELSE rec.tsim)
    + (IF rec.artistName \in {None, Some(<<>>)} THEN 0 ELSE rec.asim)

\* C16: lrclib_search called with a track and an artist name returns, from a
\* non-empty list, a candidate whose summed similarity is maximal, the
\* earliest one on ties; of two candidates with the same track name the one
\* with the higher artist similarity is returned.
C16_BestCandidate ==
    fn.pc = "searched" =>
        /\ fn.ret # None
        /\ \E i \in 1..Len(fn.data) :
              /\ fn.ret[1] = fn.data[i]
              /\ \A j \in 1..Len(fn.data) : Summed(fn.data[j]) <= Summed(fn.data[i])
              /\ \A j \in 1..(i - 1) : Summed(fn.data[j]) < Summed(fn.data[i])

\* Two candidates with the same track name, the second of higher artist
\* similarity: the second was returned, a third one of the first's sum or not.
C16_Witness ==
    /\ fn.pc = "searched" /\ Len(fn.data) = 3
    /\ fn.data[1].trackName = fn.data[2].trackName
    /\ fn.data[1].tsim = fn.data[2].tsim
    /\ fn.data[1].asim < fn.data[2].asim
    /\ fn.ret = Some(fn.data[2])
    /\ Summed(fn.data[3]) = Summed(fn.data[1]) /\ fn.data[3] # fn.data[1]

\* The title is one segment without kana or kanji that ends in a qualifier.
SingleSegmentWithQualifier(t) ==
    /\ Len(t) >= 2 /\ t[Len(t)] \in {"(q)", "q"}
    /\ \A i \in 1..Len(t) : t[i] \notin {Sep, "j"}

\* C17: with no usable description, a channel name and a title of a single
\* segment ending in a promotional qualifier, the normalizer returns the
\* cleaned channel name (without "- Topic") as artist and the title without
\* the qualifier as track.
C17_ChannelFallback ==
    fn.pc = "guessed"
    /\ parse_provided_block(fn.info.description) = <<None, None, None>>
    /\ clean_channel_name(fn.info.channel) # None
    /\ SingleSegmentWithQualifier(fn.info.title)
        => /\ fn.ret[1] = clean_channel_name(fn.info.channel)
           /\ fn.ret[2] = Some(SubSeq(fn.info.title, 1, Len(fn.info.title) - 1))

\* main has ended, by returning or by an exception, and not because GitHub
\* refused a call on the issue's repository.
MainEnded == hand.pc \in {"end", "crashed"} /\ hand.action # "none" /\ hand.error # "github"

NoRepositoryTouched == ghost.started = 0 /\ store = ghost.init

\* C18: for an issue event with action opened or edited the handler ends
\* having posted exactly one comment: the failure comment, with no lyrics
\* repository touched, when no video id was found, else the result comment
\* after the save attempt however it ended; any other event posts no comment
\* and touches no repository.
C18_ExactlyOneComment ==
    MainEnded =>
        IF hand.hasIssue /\ hand.action \in {"opened", "edited"}
        THEN /\ hand.comments = 1
             /\ IF Truthy(hand.video_id)
                THEN hand.kind = "result" /\ call["p1"].pc \in {"done", "raised"}
                ELSE hand.kind = "failure" /\ NoRepositoryTouched
        ELSE hand.comments = 0 /\ NoRepositoryTouched

\* There was no repository for the identifier before the first call.
FromNoRepository == ghost.init = NoRepo

\* README.md exists and its heading records the provenance code c.
ReadmeRecords(c) == store.readme # None /\ store.readme[1].code = Some(c)

SomeCallCompleted == \E p \in Procs : call[p].pc \in {"done", "raised"}

====
